---- MODULE Spec2Model ----
(***************************************************************************)
(* Model of find_correlation_in_pcp_data.py: the top-level script          *)
(* (presence checks, column drops, classification, proc.hog aggregation,   *)
(* memory consumption -> memory increase, find_correl_in_df) and the       *)
(* in-place scan of split_long_duration_to_past.                           *)
(*                                                                         *)
(* A table (DataFrame) is a function from column names (strings) to        *)
(* series; a series is a function from the sample index 0..n-1 to values.  *)
(* Cells of df_load are records [nan, v], because the script can create    *)
(* the "memory" column by enlargement, which fills it with missing values. *)
(***************************************************************************)
EXTENDS Integers, Sequences, FiniteSets, TLC

VARIABLES
    pc,            \* position of the top-level script
    load_type,     \* args.load_type
    show_symptoms, \* args.show_symptoms
    items_limit,   \* args.items_limit
    n,             \* number of samples (rows) of every table
    df_read,       \* history: the table as read from the CSV
    df,            \* the table read from the CSV (and after the drops)
    df_load,       \* table with the columns "CPU" and "memory"
    df_triggers,   \* trigger table
    df_symptoms,   \* symptom table
    raw_hog,       \* history: the per-process columns the aggregation consumed
    out,           \* what has been printed so far
    exit_code,     \* process exit status, -1 while running
    executed,      \* history: the transforms that have run
    col,           \* split_long_duration_to_past: my_df[col], the column scanned
    orig,          \* history: the column as it was passed in
    i,             \* split_long_duration_to_past: outer index
    j,             \* split_long_duration_to_past: inner index
    remaining,     \* split_long_duration_to_past: remaining
    spc,           \* split_long_duration_to_past: position in the scan
    seen,          \* history: value read at each index when the scan reached it
    steps          \* history: backward steps taken for each index

vars == <<pc, load_type, show_symptoms, items_limit, n, df_read, df, df_load, df_triggers,
          df_symptoms, raw_hog, out, exit_code, executed,
          col, orig, i, j, remaining, spc, seen, steps>>

scanVars == <<col, orig, i, j, remaining, spc, seen, steps>>

(***************************************************************************)
(* Bounds of the model.                                                    *)
(***************************************************************************)
PipeLen == 3        \* samples per table in the whole-script specification
MaxLimit == 2       \* largest --items-limit tried
MemLen == 3         \* longest memory series tried
MaxMem == 3         \* largest raw memory reading tried
AggLen == 2         \* samples per per-process column in the aggregation runs
MaxHog == 2         \* largest per-process reading tried
ScanLen == 5        \* longest duration column scanned
DurVals == {0, 30, 31, 97, 150}       \* duration values tried

(***************************************************************************)
(* Program constants.                                                      *)
(***************************************************************************)
HALF_WINDOW == 30
WINDOW == 60
DEFAULT_ITEMS_LIMIT == 5

CPU_COLUMN == "kernel.all.load-1 minute"
MEM_COLUMN == "mem.util.committed_AS"

DROP_COLUMN_SUFFIXES ==
    {"-/median", "-/min", "-/percentile90", "-/percentile95",
     "-/percentile99", "-/std_deviation"}
DROP_COLUMNS_FOR_CORREL == {"kernel.all.load", "mem.util", "statsd.pmda"}
COLUMNS_FOR_TRIGGERS_PREFIXES ==
    {"statsd.fm_rails_http_request", "statsd.fm_rails_importer_facts",
     "openmetrics.foreman_tasks"}
PIVOTS == {"proc.hog.cpu", "proc.hog.mem"}
LOAD_TYPES == {"CPU", "memory", "both"}

(***************************************************************************)
(* Strings and the regular expressions the script uses.  The patterns are  *)
(* plain text except for ".", which matches any character.                 *)
(***************************************************************************)
Min(a, b) == IF a < b THEN a ELSE b
Max(a, b) == IF a > b THEN a ELSE b

Char(s, k) == SubSeq(s, k, k)

\* re: pattern p matches s at offset k (1-based)
MatchAt(s, p, k) ==
    /\ k >= 1
    /\ k + Len(p) - 1 <= Len(s)
    /\ \A m \in 1..Len(p) : Char(p, m) = "." \/ Char(p, m) = Char(s, k + m - 1)

\* re.search(rf"^{p}", s)
RegexPrefix(s, p) == MatchAt(s, p, 1)

\* re.search(rf"{p}$", s) for a pattern without "."
RegexSuffix(s, p) == Len(s) >= Len(p) /\ SubSeq(s, Len(s) - Len(p) + 1, Len(s)) = p

\* re.search(p, s)
RegexSearch(s, p) == \E k \in 1..(Len(s) + 1) : MatchAt(s, p, k)

\* x.split()[-1]
LastToken(s) ==
    LET e == CHOOSE k \in 1..Len(s) :
                 /\ Char(s, k) # " "
                 /\ \A m \in (k + 1)..Len(s) : Char(s, m) = " "
        b == CHOOSE k \in 1..e :
                 /\ \A m \in k..e : Char(s, m) # " "
                 /\ (k = 1 \/ Char(s, k - 1) = " ")
    IN SubSeq(s, b, e)

\* 'duration' in col
IsDuration(name) == RegexSearch(name, "duration")

(***************************************************************************)
(* Series and tables.                                                      *)
(***************************************************************************)
Index(len) == 0..(len - 1)
Size(c) == Cardinality(DOMAIN c)
Restrict(t, names) == [c \in names |-> t[c]]
Join(t, u) == [c \in DOMAIN t \cup DOMAIN u |-> IF c \in DOMAIN u THEN u[c] ELSE t[c]]
EmptyTable == [c \in {} |-> <<>>]

RECURSIVE SumColumns(_, _, _)
\* DataFrame.sum(axis=1) at sample k over the columns `names` of t
SumColumns(t, names, k) ==
    IF names = {} THEN 0
    ELSE LET c == CHOOSE x \in names : TRUE
         IN t[c][k] + SumColumns(t, names \ {c}, k)

\* cells of df_load: a number, or a missing value (NaN)
Num(v) == [nan |-> FALSE, v |-> v]
NaN == [nan |-> TRUE, v |-> 0]
\* Python comparisons and arithmetic on floats: every comparison with NaN is False
CellEq(a, v) == ~a.nan /\ a.v = v
CellGt(a, b) == ~a.nan /\ ~b.nan /\ a.v > b.v
CellSub(a, b) == IF a.nan \/ b.nan THEN NaN ELSE Num(a.v - b.v)

(***************************************************************************)
(* split_long_duration_to_past, as a function of the table.                *)
(***************************************************************************)
\* Faulty variants of the statements below, used to show that the properties
\* checked depend on them.
\* remaining = my_df[col][i]: the 30 seconds of the own sample are not kept back
Excess_NoRetain(v) == v
\* j = i: the spill starts at the sample itself
FirstTarget_Self(ii) == ii
\* my_df.at[j, col] += remaining: the per-sample limit of 60 is missing
SpillInto_NoMin(c, jj, rem) == [c EXCEPT ![jj] = @ + rem]
\* the final assignment my_df.at[i, col] = 30 is missing
Capped_Keep(c, ii) == c

\* if my_df[col][i] > 30
IsLong(v) == v > HALF_WINDOW
\* remaining = my_df[col][i] - 30
Excess(v) == v - HALF_WINDOW
\* j = i-1
FirstTarget(ii) == ii - 1
\* while j >= 0 and remaining > 0
Spilling(jj, rem) == jj >= 0 /\ rem > 0
\* my_df.at[j, col] += min(remaining, 60)
SpillInto(c, jj, rem) == [c EXCEPT ![jj] = @ + Min(rem, WINDOW)]
\* my_df.at[i, col] = 30
Capped(c, ii) == [c EXCEPT ![ii] = HALF_WINDOW]

RECURSIVE SpillBack(_, _, _)
\* the while loop: add min(remaining, 60) at j, j-1, ... while remaining > 0
SpillBack(c, jj, rem) ==
    IF Spilling(jj, rem)
    THEN SpillBack(SpillInto(c, jj, rem), jj - 1, rem - WINDOW)
    ELSE c

\* the body of the for loop at index ii
SmearAt(c, ii) ==
    IF IsLong(c[ii])
    THEN Capped(SpillBack(c, FirstTarget(ii), Excess(c[ii])), ii)
    ELSE c

RECURSIVE SmearFrom(_, _)
\* for i in range(ii, size)
SmearFrom(c, ii) == IF ii < Size(c) THEN SmearFrom(SmearAt(c, ii), ii + 1) ELSE c

split_long_duration_to_past(my_df) ==
    [name \in DOMAIN my_df |->
        IF IsDuration(name) THEN SmearFrom(my_df[name], 0) ELSE my_df[name]]

(***************************************************************************)
(* The column drops and the classification.                                *)
(***************************************************************************)
HasDropSuffix(name) == \E s \in DROP_COLUMN_SUFFIXES : RegexSuffix(name, s)
IsTrigger(name) == \E p \in COLUMNS_FOR_TRIGGERS_PREFIXES : RegexPrefix(name, p)
IsDropForCorrel(name) == \E p \in DROP_COLUMNS_FOR_CORREL : RegexPrefix(name, p)
AnyNonZero(c) == \E k \in DOMAIN c : c[k] # 0

\* df.drop(list(df.filter(regex=DROP_COLUMN_SUFFIXES_RE)), axis=1)
DropSuffixColumns(t) == Restrict(t, {c \in DOMAIN t : ~HasDropSuffix(c)})
\* df.loc[:, (df != 0).any(axis=0)]
DropZeroColumns(t) == Restrict(t, {c \in DOMAIN t : AnyNonZero(t[c])})

Triggers(t) == Restrict(t, {c \in DOMAIN t : IsTrigger(c)})
Symptoms(t) == Restrict(t, {c \in DOMAIN t : ~IsTrigger(c) /\ ~IsDropForCorrel(c)})
\* df.filter(items=[...]).rename(columns={...})
Load(t) ==
    [r \in {x \in {"CPU", "memory"} :
               (IF x = "CPU" THEN CPU_COLUMN ELSE MEM_COLUMN) \in DOMAIN t} |->
        LET src == IF r = "CPU" THEN CPU_COLUMN ELSE MEM_COLUMN
        IN [k \in DOMAIN t[src] |-> Num(t[src][k])]]

(***************************************************************************)
(* proc.hog aggregation.                                                   *)
(***************************************************************************)
\* df_symptoms.filter(regex=fr"^{pivot}").columns
PivotColumns(t, pivot) == {c \in DOMAIN t : RegexPrefix(c, pivot)}
\* set(cols.map(lambda x: x.split()[-1]))
Groups(cols) == {LastToken(c) : c \in cols}
\* pivot_df.filter(regex=fr'{group}')
GroupColumns(cols, group) == {c \in cols : RegexSearch(c, group)}
AggName(pivot, group) == pivot \o ":" \o group

\* the table proc_df after both pivots
ProcDf(t, len) ==
    LET keys == UNION {{<<p, g>> : g \in Groups(PivotColumns(t, p))} : p \in PIVOTS}
        names == {AggName(k[1], k[2]) : k \in keys}
    IN [name \in names |->
          LET k == CHOOSE x \in keys : AggName(x[1], x[2]) = name
              cols == PivotColumns(t, k[1])
          IN [s \in Index(len) |-> SumColumns(t, GroupColumns(cols, k[2]), s)]]

HogColumns(t) == UNION {PivotColumns(t, p) : p \in PIVOTS}

\* df_symptoms after the loop and the join
Aggregated(t, len) ==
    Join(Restrict(t, DOMAIN t \ HogColumns(t)), ProcDf(t, len))

(***************************************************************************)
(* memory consumption -> memory increase.                                  *)
(***************************************************************************)
\* df_load.at[0, "memory"] = 0 ; a missing column is created by enlargement,
\* with missing values at the other samples
SetFirstZero(load, len) ==
    IF "memory" \in DOMAIN load
    THEN [load EXCEPT !["memory"][0] = Num(0)]
    ELSE Join(load, [c \in {"memory"} |->
                       [k \in Index(len) |-> IF k = 0 THEN Num(0) ELSE NaN]])

\* the body of the for loop at index ii
IncreaseAt(m, ii) ==
    LET oldest == m[ii - 1]
        newest == m[ii]
    IN IF CellEq(oldest, 0) \/ CellGt(oldest, newest)
       THEN [m EXCEPT ![ii] = Num(0)]
       ELSE [m EXCEPT ![ii] = CellSub(newest, oldest)]

RECURSIVE IncreaseFrom(_, _)
\* for i in range(ii, 0, -1)
IncreaseFrom(m, ii) == IF ii >= 1 THEN IncreaseFrom(IncreaseAt(m, ii), ii - 1) ELSE m

MemoryIncrease(load, len) ==
    LET l0 == SetFirstZero(load, len)
    IN [l0 EXCEPT !["memory"] = IncreaseFrom(l0["memory"], len - 1)]

(***************************************************************************)
(* corrwith / fillna / sort_values / [:items_limit].                       *)
(* A coefficient r is kept exactly, as its sign and the fraction           *)
(* num/den = r*r; the order on coefficients is the order on r.             *)
(***************************************************************************)
RECURSIVE SumSet(_, _)
\* the sum of f over the set V
SumSet(V, f) ==
    IF V = {} THEN 0
    ELSE LET k == CHOOSE x \in V : TRUE IN f[k] + SumSet(V \ {k}, f)

Sign(v) == IF v > 0 THEN 1 ELSE IF v < 0 THEN -1 ELSE 0
UndefinedCoef == [nan |-> TRUE, sign |-> 0, num |-> 0, den |-> 1]
ZeroCoef == [nan |-> FALSE, sign |-> 0, num |-> 0, den |-> 1]

\* Series.corr (Pearson) of column x with load series y over the samples
\* where y is not missing; undefined when a variance is zero
Pearson(x, y) ==
    LET V == {k \in DOMAIN y : ~y[k].nan}
        m == Cardinality(V)
        sx == SumSet(V, [k \in V |-> x[k]])
        sy == SumSet(V, [k \in V |-> y[k].v])
        sxy == SumSet(V, [k \in V |-> x[k] * y[k].v])
        sxx == SumSet(V, [k \in V |-> x[k] * x[k]])
        syy == SumSet(V, [k \in V |-> y[k].v * y[k].v])
        cov == m * sxy - sx * sy
        vx == m * sxx - sx * sx
        vy == m * syy - sy * sy
    IN IF m < 2 \/ vx = 0 \/ vy = 0
       THEN UndefinedCoef
       ELSE [nan |-> FALSE, sign |-> Sign(cov), num |-> cov * cov, den |-> vx * vy]

\* .fillna(value=0)
FillNa(c) == IF c.nan THEN ZeroCoef ELSE c

RECURSIVE FracLess(_, _, _, _)
\* a/b < c/d for a, c >= 0 and b, d > 0, by the continued-fraction expansion
FracLess(a, b, c, d) ==
    LET qa == a \div b
        qc == c \div d
        ra == a % b
        rc == c % d
    IN IF qa # qc THEN qa < qc
       ELSE IF rc = 0 THEN FALSE
       ELSE IF ra = 0 THEN TRUE
       ELSE FracLess(d, rc, b, ra)

\* a < b as coefficients
CoefLess(a, b) ==
    IF a.sign # b.sign THEN a.sign < b.sign
    ELSE IF a.sign = 1 THEN FracLess(a.num, a.den, b.num, b.den)
    ELSE IF a.sign = -1 THEN FracLess(b.num, b.den, a.num, a.den)
    ELSE FALSE

\* insert row r behind every row whose coefficient is not smaller
InsertDesc(rows, r) ==
    LET pos == Cardinality({k \in 1..Len(rows) : ~CoefLess(rows[k].coef, r.coef)})
    IN SubSeq(rows, 1, pos) \o <<r>> \o SubSeq(rows, pos + 1, Len(rows))

RECURSIVE SortDesc(_)
\* .sort_values(ascending=False)
SortDesc(rows) ==
    IF rows = <<>> THEN <<>>
    ELSE InsertDesc(SortDesc(SubSeq(rows, 1, Len(rows) - 1)), rows[Len(rows)])

\* rows[:limit], a Python slice
Slice(rows, limit) ==
    IF limit >= 0 THEN SubSeq(rows, 1, Min(limit, Len(rows)))
    ELSE SubSeq(rows, 1, Max(Len(rows) + limit, 0))

\* my_df.corrwith(load).fillna(value=0), the columns taken in the order `order`
Corrwith(my_df, load, order) ==
    [k \in 1..Len(order) |->
        [name |-> order[k], coef |-> FillNa(Pearson(my_df[order[k]], load))]]

\* the ranking one report prints
Ranking(my_df, load, order, limit) == Slice(SortDesc(Corrwith(my_df, load, order)), limit)

\* the orders in which the columns of a table can reach the sort
Orders(t) ==
    LET D == DOMAIN t
    IN {s \in [1..Cardinality(D) -> D] : \A a, b \in 1..Cardinality(D) : a # b => s[a] # s[b]}

Line(kind, table, role, rows) == [kind |-> kind, table |-> table, role |-> role, rows |-> rows]

\* find_correl_in_df: the table after the call, what has been printed, and
\* whether the call raised KeyError on a load column that is not in df_load
find_correl_in_df(load, my_df, correl_type, ltype, limit, printed, ordC, ordM) ==
    LET smeared == split_long_duration_to_past(my_df)
        o1 == Append(printed, Line("header", correl_type, "", <<>>))
        wantC == ltype # "memory"
        wantM == ltype # "CPU"
        o2 == IF wantC THEN Append(o1, Line("section", correl_type, "CPU", <<>>)) ELSE o1
        failC == wantC /\ "CPU" \notin DOMAIN load
        o3 == IF wantC /\ ~failC
              THEN Append(o2, Line("report", correl_type, "CPU",
                                   Ranking(smeared, load["CPU"], ordC, limit)))
              ELSE o2
        failM == wantM /\ "memory" \notin DOMAIN load
        o4 == IF wantM /\ ~failM
              THEN Append(Append(o3, Line("section", correl_type, "memory", <<>>)),
                          Line("report", correl_type, "memory",
                               Ranking(smeared, load["memory"], ordM, limit)))
              ELSE o3
    IN IF failC THEN [table |-> smeared, out |-> o2, raised |-> TRUE]
       ELSE IF failM THEN [table |-> smeared, out |-> o3, raised |-> TRUE]
       ELSE [table |-> smeared, out |-> o4, raised |-> FALSE]

(***************************************************************************)
(* The top-level script, one action per block.                             *)
(***************************************************************************)
\* Faulty variant: the two presence checks test the wrong load type
RequiredMissing_Swapped(ltype, t) ==
    \/ ltype # "memory" /\ MEM_COLUMN \notin DOMAIN t
    \/ ltype # "CPU" /\ CPU_COLUMN \notin DOMAIN t

RequiredMissing(ltype, t) ==
    \/ ltype # "CPU" /\ MEM_COLUMN \notin DOMAIN t
    \/ ltype # "memory" /\ CPU_COLUMN \notin DOMAIN t

\* ensure proper load-related metrics are present
CheckLoadColumns ==
    /\ pc = "check"
    /\ IF RequiredMissing(load_type, df)
       THEN /\ out' = Append(out, Line("error", "",
                        IF load_type # "CPU" /\ MEM_COLUMN \notin DOMAIN df
                        THEN "memory" ELSE "CPU", <<>>))
            /\ exit_code' = 1
            /\ pc' = "fatal"
       ELSE /\ pc' = "drop"
            /\ UNCHANGED <<out, exit_code>>
    /\ UNCHANGED <<load_type, show_symptoms, items_limit, n, df_read, df, df_load,
                   df_triggers, df_symptoms, raw_hog, executed>>
    /\ UNCHANGED scanVars

\* drop the statistical-aggregate columns and the columns with zeroes only
DropColumns ==
    /\ pc = "drop"
    /\ df' = DropZeroColumns(DropSuffixColumns(df))
    /\ executed' = executed \cup {"drop"}
    /\ pc' = "classify"
    /\ UNCHANGED <<load_type, show_symptoms, items_limit, n, df_read, df_load,
                   df_triggers, df_symptoms, raw_hog, out, exit_code>>
    /\ UNCHANGED scanVars

\* split the DataFrame to triggers, symptoms and load
Classify ==
    /\ pc = "classify"
    /\ df_triggers' = Triggers(df)
    /\ df_symptoms' = Symptoms(df)
    /\ df_load' = Load(df)
    /\ pc' = "aggregate"
    /\ UNCHANGED <<load_type, show_symptoms, items_limit, n, df_read, df, raw_hog, out,
                   exit_code, executed>>
    /\ UNCHANGED scanVars

\* aggregate "proc.hog.cpu *" and "proc.hog.mem *" by process name
Aggregate ==
    /\ pc = "aggregate"
    /\ raw_hog' = Restrict(df_symptoms, HogColumns(df_symptoms))
    /\ df_symptoms' = Aggregated(df_symptoms, n)
    /\ executed' = executed \cup {"aggregate"}
    /\ pc' = "increase"
    /\ UNCHANGED <<load_type, show_symptoms, items_limit, n, df_read, df, df_load,
                   df_triggers, out, exit_code>>
    /\ UNCHANGED scanVars

\* modify memory consumption to memory increase
Increase ==
    /\ pc = "increase"
    /\ IF load_type # "CPU"
       THEN /\ df_load' = MemoryIncrease(df_load, n)
            /\ executed' = executed \cup {"increase"}
       ELSE UNCHANGED <<df_load, executed>>
    /\ pc' = "triggers"
    /\ UNCHANGED <<load_type, show_symptoms, items_limit, n, df_read, df, df_triggers,
                   df_symptoms, raw_hog, out, exit_code>>
    /\ UNCHANGED scanVars

\* find_correl_in_df(df_load, df_triggers, "TRIGGERS", args.load_type)
ReportTriggers ==
    /\ pc = "triggers"
    /\ \E ordC \in Orders(df_triggers), ordM \in Orders(df_triggers) :
          LET r == find_correl_in_df(df_load, df_triggers, "TRIGGERS", load_type,
                                     items_limit, out, ordC, ordM)
          IN /\ df_triggers' = r.table
             /\ out' = r.out
             /\ IF r.raised
                THEN pc' = "crashed" /\ exit_code' = 1
                ELSE pc' = "symptoms" /\ UNCHANGED exit_code
    /\ executed' = executed \cup {"smear"}
    /\ UNCHANGED <<load_type, show_symptoms, items_limit, n, df_read, df, df_load,
                   df_symptoms, raw_hog>>
    /\ UNCHANGED scanVars

\* if args.show_symptoms: find_correl_in_df(df_load, df_symptoms, "SYMPTOMS", ...)
ReportSymptoms ==
    /\ pc = "symptoms"
    /\ IF show_symptoms
       THEN \E ordC \in Orders(df_symptoms), ordM \in Orders(df_symptoms) :
               LET r == find_correl_in_df(df_load, df_symptoms, "SYMPTOMS", load_type,
                                          items_limit, out, ordC, ordM)
               IN /\ df_symptoms' = r.table
                  /\ out' = r.out
                  /\ IF r.raised
                     THEN pc' = "crashed" /\ exit_code' = 1
                     ELSE pc' = "done" /\ exit_code' = 0
       ELSE /\ pc' = "done"
            /\ exit_code' = 0
            /\ UNCHANGED <<df_symptoms, out>>
    /\ UNCHANGED <<load_type, show_symptoms, items_limit, n, df_read, df, df_load,
                   df_triggers, raw_hog, executed>>
    /\ UNCHANGED scanVars

Next ==
    \/ CheckLoadColumns
    \/ DropColumns
    \/ Classify
    \/ Aggregate
    \/ Increase
    \/ ReportTriggers
    \/ ReportSymptoms

(***************************************************************************)
(* Inputs.                                                                 *)
(***************************************************************************)
\* the scan of split_long_duration_to_past is not running
ScanIdle ==
    /\ col = <<>>
    /\ orig = <<>>
    /\ i = 0
    /\ j = 0
    /\ remaining = 0
    /\ spc = "idle"
    /\ seen = <<>>
    /\ steps = <<>>

\* the script starts on table t of len samples
Start(t, len) ==
    /\ pc = "check"
    /\ n = len
    /\ df_read = t
    /\ df = t
    /\ df_load = EmptyTable
    /\ df_triggers = EmptyTable
    /\ df_symptoms = EmptyTable
    /\ raw_hog = EmptyTable
    /\ out = <<>>
    /\ exit_code = -1
    /\ executed = {}
    /\ ScanIdle

\* named series of len samples
Shape(name, len) ==
    [k \in Index(len) |->
        CASE name = "zero" -> 0
          [] name = "flat" -> 1
          [] name = "up" -> k + 1
          [] name = "down" -> len - k
          [] name = "peak" -> IF k = 1 THEN 5 ELSE 1
          [] name = "long" -> IF k = len - 1 THEN 97 ELSE 0]

\* the table holding the columns of `choice` that are not "absent"
TableOf(choice, len) ==
    [c \in {x \in DOMAIN choice : choice[x] # "absent"} |-> Shape(choice[c], len)]

T_DURATION == "statsd.fm_rails_http_request_total_duration-/average"
T_DURATION_MIN == "statsd.fm_rails_http_request_total_duration-/min"
T_TASKS == "openmetrics.foreman_tasks.count"
T_FACTS == "statsd.fm_rails_importer_facts_count-/count"
LOAD_5MIN == "kernel.all.load-5 minute"
S_DISK == "disk.all.total"
HOG_PYTHON == "proc.hog.cpu-001 python"
HOG_PYTHON3 == "proc.hog.cpu-002 python3"

PipeTables ==
    {TableOf((CPU_COLUMN :> a) @@ (MEM_COLUMN :> b) @@ (T_DURATION :> c)
             @@ (T_TASKS :> d) @@ (T_FACTS :> e) @@ (HOG_PYTHON3 :> f)
             @@ (T_DURATION_MIN :> "up") @@ (LOAD_5MIN :> "up")
             @@ (S_DISK :> "peak") @@ (HOG_PYTHON :> "up"), PipeLen) :
        a \in {"absent", "zero", "peak"},
        b \in {"absent", "zero", "up"},
        c \in {"zero", "up", "long"},
        d \in {"down", "flat"},
        e \in {"absent", "peak"},
        f \in {"absent", "down"}}

Init ==
    /\ load_type \in LOAD_TYPES
    /\ show_symptoms \in BOOLEAN
    /\ items_limit \in -1..MaxLimit
    /\ \E t \in PipeTables : Start(t, PipeLen)

Spec == Init /\ [][Next]_vars

\* raw memory series of every length up to MemLen, with and without a CPU load
MemTables ==
    UNION {{Join(TableOf((CPU_COLUMN :> a) @@ (T_TASKS :> "down"), len),
                 IF present THEN [c \in {MEM_COLUMN} |-> m] ELSE EmptyTable) :
               a \in {"zero", "up"},
               present \in BOOLEAN,
               m \in [Index(len) -> 0..MaxMem]} : len \in 1..MemLen}

InitMem ==
    /\ load_type \in LOAD_TYPES
    /\ show_symptoms \in BOOLEAN
    /\ items_limit = DEFAULT_ITEMS_LIMIT
    /\ \E t \in MemTables : Start(t, Size(t[T_TASKS]))

SpecMem == InitMem /\ [][Next]_vars

HOG_PYTHON_2 == "proc.hog.cpu-003 python"
HOG_RUBY == "proc.hog.mem-001 ruby"

\* per-process columns with every reading up to MaxHog
AggTables ==
    {Join(TableOf((CPU_COLUMN :> "up") @@ (MEM_COLUMN :> "up") @@ (T_TASKS :> "down")
                  @@ (HOG_RUBY :> "up"), AggLen),
          [c \in present |-> t[c]]) :
        present \in SUBSET {HOG_PYTHON, HOG_PYTHON3, HOG_PYTHON_2},
        t \in [{HOG_PYTHON, HOG_PYTHON3, HOG_PYTHON_2} -> [Index(AggLen) -> 0..MaxHog]]}

InitAgg ==
    /\ load_type \in LOAD_TYPES
    /\ show_symptoms = TRUE
    /\ items_limit = DEFAULT_ITEMS_LIMIT
    /\ \E t \in AggTables : Start(t, AggLen)

SpecAgg == InitAgg /\ [][Next]_vars

(***************************************************************************)
(* split_long_duration_to_past on one duration column, statement by        *)
(* statement.                                                              *)
(***************************************************************************)
\* the top-level script is not running
PipeIdle ==
    /\ pc = "idle"
    /\ load_type = "both"
    /\ show_symptoms = FALSE
    /\ items_limit = DEFAULT_ITEMS_LIMIT
    /\ df_read = EmptyTable
    /\ df = EmptyTable
    /\ df_load = EmptyTable
    /\ df_triggers = EmptyTable
    /\ df_symptoms = EmptyTable
    /\ raw_hog = EmptyTable
    /\ out = <<>>
    /\ exit_code = -1
    /\ executed = {}

InitScan ==
    /\ PipeIdle
    /\ n \in 1..ScanLen
    /\ orig \in [Index(n) -> DurVals]
    /\ col = orig
    /\ i = 0
    /\ j = 0
    /\ remaining = 0
    /\ spc = "scan"
    /\ seen = <<>>
    /\ steps = <<>>

\* for i in range(0, size): if my_df[col][i] > 30: remaining = ...; j = i-1
ScanRead ==
    /\ spc = "scan"
    /\ i < n
    /\ seen' = (i :> col[i]) @@ seen
    /\ steps' = (i :> 0) @@ steps
    /\ IF IsLong(col[i])
       THEN /\ remaining' = Excess(col[i])
            /\ j' = FirstTarget(i)
            /\ spc' = "spill"
            /\ UNCHANGED i
       ELSE /\ i' = i + 1
            /\ UNCHANGED <<remaining, j, spc>>
    /\ UNCHANGED <<col, orig, n>>
    /\ UNCHANGED <<pc, load_type, show_symptoms, items_limit, df_read, df, df_load,
                   df_triggers, df_symptoms, raw_hog, out, exit_code, executed>>

\* one turn of the while loop
Spill ==
    /\ spc = "spill"
    /\ Spilling(j, remaining)
    /\ col' = SpillInto(col, j, remaining)
    /\ j' = j - 1
    /\ remaining' = remaining - WINDOW
    /\ steps' = [steps EXCEPT ![i] = @ + 1]
    /\ UNCHANGED <<orig, i, spc, seen, n>>
    /\ UNCHANGED <<pc, load_type, show_symptoms, items_limit, df_read, df, df_load,
                   df_triggers, df_symptoms, raw_hog, out, exit_code, executed>>

\* the while loop is over: my_df.at[i, col] = 30
Cap ==
    /\ spc = "spill"
    /\ ~Spilling(j, remaining)
    /\ col' = Capped(col, i)
    /\ i' = i + 1
    /\ spc' = "scan"
    /\ UNCHANGED <<orig, j, remaining, seen, steps, n>>
    /\ UNCHANGED <<pc, load_type, show_symptoms, items_limit, df_read, df, df_load,
                   df_triggers, df_symptoms, raw_hog, out, exit_code, executed>>

\* range(0, size) is exhausted
ScanEnd ==
    /\ spc = "scan"
    /\ i >= n
    /\ spc' = "done"
    /\ UNCHANGED <<col, orig, i, j, remaining, seen, steps, n>>
    /\ UNCHANGED <<pc, load_type, show_symptoms, items_limit, df_read, df, df_load,
                   df_triggers, df_symptoms, raw_hog, out, exit_code, executed>>

NextScan ==
    \/ ScanRead
    \/ Spill
    \/ Cap
    \/ ScanEnd

SpecScan == InitScan /\ [][NextScan]_vars

(***************************************************************************)
(* Properties of split_long_duration_to_past (checked under SpecScan).     *)
(***************************************************************************)
ScanDone == spc = "done"

\* the column [0,0,97,0,0] of the end-to-end scenario
ScenarioColumn == (0 :> 0) @@ (1 :> 0) @@ (2 :> 97) @@ (3 :> 0) @@ (4 :> 0)

\* C3 as stated: smearing [0,0,97,0,0] yields [0,7,30,30,0].
C3_ScenarioAsStated ==
    ScanDone /\ orig = ScenarioColumn
        => col = (0 :> 0) @@ (1 :> 7) @@ (2 :> 30) @@ (3 :> 30) @@ (4 :> 0)

\* C3 amended: smearing [0,0,97,0,0] yields [7,60,30,0,0]: index 2 keeps 30,
\* index 1 receives min(67,60) = 60 and index 0 receives the last 7.
C3_Scenario ==
    ScanDone /\ orig = ScenarioColumn
        => col = (0 :> 7) @@ (1 :> 60) @@ (2 :> 30) @@ (3 :> 0) @@ (4 :> 0)

C3_Witness == ScanDone /\ orig = ScenarioColumn /\ col[2] = 30

\* ceil((d - 30) / 60) for d > 30
StepsNeeded(d) == (d - 30 + 59) \div 60

\* index x holds the only non-zero sample of the input column
OnlySampleAt(x) == orig[x] # 0 /\ \A k \in Index(n) \ {x} : orig[k] = 0

RECURSIVE SumRange(_, _, _)
\* c[lo] + ... + c[hi]
SumRange(c, lo, hi) == IF lo > hi THEN 0 ELSE c[hi] + SumRange(c, lo, hi - 1)

\* C6: smearing conservation.  For a column whose only non-zero sample is
\* d > 30 at index x with at least ceil((d-30)/60) earlier samples, after the
\* transform the values at x-k..x (k the backward steps taken for x) sum to d,
\* index x holds 30, and every index below x-k and above x is unchanged.
C6_Conservation ==
    ScanDone =>
        \A x \in Index(n) :
            (OnlySampleAt(x) /\ orig[x] > 30 /\ x >= StepsNeeded(orig[x])) =>
                /\ SumRange(col, x - steps[x], x) = orig[x]
                /\ col[x] = 30
                /\ \A k \in Index(n) : (k < x - steps[x] \/ k > x) => col[k] = orig[k]

C6_Witness ==
    /\ ScanDone
    /\ n >= 4
    /\ OnlySampleAt(3)
    /\ orig[3] = 150
    /\ steps[3] = 2

\* C8 as stated: every index whose input value is <= 30 holds the same value
\* after the transform.
C8_BoundaryAsStated ==
    ScanDone => \A k \in Index(n) : orig[k] <= 30 => col[k] = orig[k]

\* the backward spill of the sample at index m reaches index k < m
Reaches(m, k) == orig[m] - 30 > 60 * (m - k - 1)

\* C8 amended: an index whose input value is <= 30, and which the backward
\* spill of no later sample reaches, holds the same value after the transform.
C8_Boundary ==
    ScanDone =>
        \A k \in Index(n) :
            (orig[k] <= 30 /\ \A m \in Index(n) : m > k => ~Reaches(m, k))
                => col[k] = orig[k]

C8_Witness ==
    /\ ScanDone
    /\ n >= 4
    /\ orig[0] = 30
    /\ orig[3] = 150
    /\ orig[1] = 0
    /\ col[0] = 30
    /\ col[1] = 60

\* the share of the sample at index m that falls on index k < m
Share(m, k) ==
    IF orig[m] > 30 THEN Min(Max(orig[m] - 30 - 60 * (m - k - 1), 0), 60) ELSE 0

RECURSIVE SumShares(_, _)
\* the shares of the samples m, m+1, ..., n-1 that fall on index k
SumShares(m, k) == IF m >= n THEN 0 ELSE Share(m, k) + SumShares(m + 1, k)

\* the value read at every index the scan has reached is the input value
ReadsInput == \A k \in DOMAIN seen : seen[k] = orig[k]

\* a step changes the column only at an index the scan has already read: below
\* i while spilling, and at i itself only to cap it to 30
WritesBehind ==
    \A k \in Index(n) :
        col'[k] # col[k] =>
            /\ k \in DOMAIN seen
            /\ k <= i
            /\ (k = i => col'[k] = 30)
            /\ (k < i => col'[k] > col[k])

FinalValues ==
    ScanDone => \A k \in Index(n) : col[k] = Min(orig[k], 30) + SumShares(k + 1, k)

\* C10: read-before-write order.  When the scan reaches index i the value it
\* reads is the input value; every backward addition made while processing i
\* goes to an index below i, which was read (and capped) before; so the final
\* value at j is min(orig[j], 30) plus, for every later i with orig[i] > 30,
\* min(max(orig[i] - 30 - 60*(i-j-1), 0), 60).
C10_ReadBeforeWrite == [](ReadsInput /\ FinalValues) /\ [][WritesBehind]_vars

C10_Witness ==
    /\ ScanDone
    /\ n >= 4
    /\ orig[1] = 97
    /\ orig[2] = 150
    /\ orig[3] = 97
    /\ col[1] = 30 + 60 + 7

\* the statement-by-statement scan computes split_long_duration_to_past
ScanAgreesWithFunction == ScanDone => col = SmearFrom(orig, 0)

(***************************************************************************)
(* Properties of the whole script.                                         *)
(***************************************************************************)
Ended == pc \in {"done", "fatal", "crashed"}

\* the load roles the requested load type asks for
Roles == IF load_type = "both" THEN {"CPU", "memory"} ELSE {load_type}
InputColumn(role) == IF role = "CPU" THEN CPU_COLUMN ELSE MEM_COLUMN
\* a load column the load type requires is not in the input
RequiredAbsent == \E r \in Roles : InputColumn(r) \notin DOMAIN df_read

Lines(kind) == {k \in 1..Len(out) : out[k].kind = kind}
ReportLines(table, role) ==
    {k \in Lines("report") : out[k].table = table /\ out[k].role = role}
NoReportText == Lines("header") \cup Lines("section") \cup Lines("report") = {}
RequestedTables == IF show_symptoms THEN {"TRIGGERS", "SYMPTOMS"} ELSE {"TRIGGERS"}

\* C4: every run ends either completed, with every report the load type and
\* the show-symptoms flag ask for printed, or aborted by the fatal input error
\* before any transform has run and before any report text is printed.
C4_CompletesOrAbortsEarly ==
    Ended =>
        \/ /\ pc = "done"
           /\ exit_code = 0
           /\ \A t \in RequestedTables, r \in Roles : ReportLines(t, r) # {}
        \/ /\ pc = "fatal"
           /\ exit_code = 1
           /\ executed = {}
           /\ NoReportText

\* C5: fatal input.  Whenever a load column the load type requires is absent
\* from the input, the run aborts with exit code 1, having run no transform
\* and printed no report; when only a column of an excluded role is missing
\* (or none), the run does not take the fatal abort.
C5_FatalInput ==
    pc # "check" =>
        /\ RequiredAbsent =>
              /\ pc = "fatal"
              /\ exit_code = 1
              /\ executed = {}
              /\ NoReportText
        /\ ~RequiredAbsent => pc # "fatal" /\ Lines("error") = {}

C5_Witness ==
    /\ pc = "fatal"
    /\ load_type = "memory"
    /\ MEM_COLUMN \notin DOMAIN df_read
    /\ CPU_COLUMN \in DOMAIN df_read
    /\ exit_code = 1

\* a run in which only the column of the excluded role is missing completes
C5_ExcludedRoleWitness ==
    /\ pc = "done"
    /\ load_type = "CPU"
    /\ MEM_COLUMN \notin DOMAIN df_read
    /\ ReportLines("TRIGGERS", "CPU") # {}

\* find_correl_in_df has been called for the table and the call is over
Called(table) ==
    /\ \E k \in Lines("header") : out[k].table = table
    /\ \/ pc \in {"done", "crashed"}
       \/ pc = "symptoms" /\ table = "TRIGGERS"

TableOfName(table) == IF table = "TRIGGERS" THEN df_triggers ELSE df_symptoms

\* the coefficient of a column of the table against the load role, undefined
\* coefficients replaced by 0
Coefficient(table, role, name) ==
    LET c == Pearson(TableOfName(table)[name], df_load[role])
    IN IF c.nan THEN ZeroCoef ELSE c

\* rows is the ranking of the table against the role
IsRanking(rows, table, role) ==
    LET cols == DOMAIN TableOfName(table)
        shown == {rows[k].name : k \in 1..Len(rows)}
    IN /\ shown \subseteq cols
       /\ Cardinality(shown) = Len(rows)
       /\ \A k \in 1..Len(rows) : rows[k].coef = Coefficient(table, role, rows[k].name)
       /\ items_limit > 0 => Len(rows) = Min(items_limit, Cardinality(cols))
       /\ \A k \in 1..(Len(rows) - 1) : ~CoefLess(rows[k].coef, rows[k + 1].coef)
       /\ \A c \in cols \ shown : \A k \in 1..Len(rows) :
              ~CoefLess(rows[k].coef, Coefficient(table, role, c))

\* C9: ranking.  Every report find_correl_in_df produces is the table's
\* columns with their coefficients (undefined ones replaced by 0) in
\* non-increasing order, cut to items_limit; and a call produces the CPU
\* report iff the load type is not memory, the memory report iff it is not CPU.
C9_Ranking ==
    \A table \in {"TRIGGERS", "SYMPTOMS"} :
        Called(table) =>
            \A role \in {"CPU", "memory"} :
                /\ Cardinality(ReportLines(table, role)) = (IF role \in Roles THEN 1 ELSE 0)
                /\ \A k \in ReportLines(table, role) : IsRanking(out[k].rows, table, role)

\* every report that is printed is the ranking C9 describes (the part of C9
\* that does not depend on the call returning)
PrintedReportsAreRankings ==
    \A table \in {"TRIGGERS", "SYMPTOMS"} :
        Called(table) =>
            \A role \in {"CPU", "memory"} :
                /\ Cardinality(ReportLines(table, role)) <= 1
                /\ role \notin Roles => ReportLines(table, role) = {}
                /\ \A k \in ReportLines(table, role) : IsRanking(out[k].rows, table, role)

\* C9 in the runs in which no call of find_correl_in_df raises
RankingUnlessRaised == pc # "crashed" => C9_Ranking

(***************************************************************************)
(* Properties of the memory-increase transform (checked under SpecMem).    *)
(***************************************************************************)
Increased == "increase" \in executed
\* the raw memory series of the input
RawMemory == df_read[MEM_COLUMN]
StrictlyIncreasing(c) == \A k \in DOMAIN c : k > 0 => c[k - 1] < c[k]

\* C1: for every strictly increasing raw memory series, after the transform
\* index 0 holds 0 and every index k > 0, k = 1 included, holds
\* raw[k] - raw[k-1].  Stated for the series whose first reading is positive:
\* after a first reading of 0 the increase at index 1 is 0 by the
\* unknown-baseline rule (oldest == 0) in any case.
C1_FirstDifference ==
    (Increased /\ StrictlyIncreasing(RawMemory) /\ RawMemory[0] > 0) =>
        \A k \in Index(n) :
            df_load["memory"][k] = Num(IF k = 0 THEN 0 ELSE RawMemory[k] - RawMemory[k - 1])

\* what the transform does on a strictly increasing series: index 1 is 0 as
\* well, because index 0 is set to 0 before index 1 is computed from it
FirstDifferenceFromIndexTwo ==
    (Increased /\ StrictlyIncreasing(RawMemory)) =>
        \A k \in Index(n) :
            df_load["memory"][k] = Num(IF k <= 1 THEN 0 ELSE RawMemory[k] - RawMemory[k - 1])

\* C7: after the transform the memory load value is a number >= 0 at every
\* index, for every raw input series.
C7_NonNegative ==
    Increased =>
        \A k \in Index(n) : ~df_load["memory"][k].nan /\ df_load["memory"][k].v >= 0

\* C7 for the series the all-zero column drop keeps: non-negative everywhere,
\* 0 at index 0 and 0 wherever the value read at k-1 is 0 or above the value at k
NonNegativeWhenKept ==
    (Increased /\ AnyNonZero(RawMemory)) =>
        \A k \in Index(n) :
            /\ ~df_load["memory"][k].nan
            /\ df_load["memory"][k].v >= 0
            /\ k = 0 => df_load["memory"][k].v = 0
            /\ k = 1 => df_load["memory"][k].v = 0
            /\ (k > 1 /\ (RawMemory[k - 1] = 0 \/ RawMemory[k - 1] > RawMemory[k]))
                   => df_load["memory"][k].v = 0

(***************************************************************************)
(* Properties of the proc.hog aggregation (checked under SpecAgg).         *)
(***************************************************************************)
\* the aggregated columns of a pivot in the symptom table
AggregatedColumns(pivot) == {c \in DOMAIN df_symptoms : RegexPrefix(c, AggName(pivot, ""))}

\* C2: for each pivot and every sample, the aggregated "<pivot>:<group>"
\* columns sum to the same value as the original per-process columns of the
\* pivot.
C2_MassPreserving ==
    "aggregate" \in executed =>
        \A p \in PIVOTS, k \in Index(n) :
            SumColumns(df_symptoms, AggregatedColumns(p), k)
                = SumColumns(raw_hog, PivotColumns(raw_hog, p), k)

\* the aggregation preserves the sums when no group name occurs in the name
\* of a column of another group
NoGroupInsideOtherName ==
    \A p \in PIVOTS : \A c \in PivotColumns(raw_hog, p) :
        \A g \in Groups(PivotColumns(raw_hog, p)) : RegexSearch(c, g) => g = LastToken(c)

MassPreservingWhenGroupsDistinct ==
    ("aggregate" \in executed /\ NoGroupInsideOtherName) => C2_MassPreserving

====
